---- MODULE Spec2Model ----
(***************************************************************************)
(* Model of the delivery pricing / ETA service of src/app.py: the three    *)
(* POST handlers /predict-rate, /predict-eta and /log-delivery, the        *)
(* history file delivery_history.csv they share, and the module-level      *)
(* model / encoder / config loaded at start-up.                            *)
(*                                                                         *)
(* Units.  Coordinates are integers in 1e-7 degree, distances in metres,   *)
(* order totals and config amounts in KSh, computed prices in 1/1000 KSh,  *)
(* response prices in 1/100 KSh (round(.., 2)), response and stored        *)
(* distances in 1/100 km, ETAs in 1/100 hour, timestamps in minutes.       *)
(* Text is a sequence of one-character strings so that strip(), lower()    *)
(* and the substring test are computed, not assumed.                       *)
(***************************************************************************)
EXTENDS Integers, Sequences, FiniteSets, TLC

VARIABLES
    model,      \* TRUE iff model and encoder were loaded at start-up (l.21-28)
    config,     \* the pricing config loaded at start-up (l.31-42)
    store,      \* the rows of delivery_history.csv, as text fields (l.45-49)
    req,        \* the request being answered ("none" endpoint when idle)
    resp,       \* the HTTP response the handler produced for req
    run,        \* what the handler did internally while answering req
    pc,         \* threaded serving: each worker's position in its handler
    df          \* threaded serving: each worker's in-memory DataFrame

vars == <<model, config, store, req, resp, run, pc, df>>

----------------------------------------------------------------------------
(* Bounds of the model *)

\* the history file holds at most this many rows
MaxRows == 2

\* number of request threads of the threaded server
NumWorkers == 2

----------------------------------------------------------------------------
(* JSON field values: a key may be absent, hold text that float() /        *)
(* pd.to_datetime() reject, or hold a number.                              *)

Absent == [k |-> "absent", v |-> 0]

Text == [k |-> "text", v |-> 0]

Num(n) == [k |-> "num", v |-> n]

\* a DataFrame cell / csv field of a numeric column: NaN is an empty field
NaN == [k |-> "nan", v |-> 0]

\* a label key: absent, or a string
NoLabel == [k |-> "absent", s |-> <<>>]

Label(s) == [k |-> "str", s |-> s]

\* a DataFrame cell of the county column that read_csv turned into NaN
NaNCell == [k |-> "nan", s |-> <<>>]

----------------------------------------------------------------------------
(* Text helpers *)

UpperCase == <<"A","B","C","D","E","F","G","H","I","J","K","L","M",
               "N","O","P","Q","R","S","T","U","V","W","X","Y","Z">>

LowerCase == <<"a","b","c","d","e","f","g","h","i","j","k","l","m",
               "n","o","p","q","r","s","t","u","v","w","x","y","z">>

\* str.lower() on one character
LowerChar(c) ==
    IF \E i \in 1..26 : UpperCase[i] = c
    THEN LowerCase[CHOOSE i \in 1..26 : UpperCase[i] = c]
    ELSE c

\* str.lower()
Lower(s) == [i \in 1..Len(s) |-> LowerChar(s[i])]

\* str.strip(): drop leading and trailing whitespace
RECURSIVE LStrip(_)
LStrip(s) == IF s # <<>> /\ Head(s) = " " THEN LStrip(Tail(s)) ELSE s

RECURSIVE RStrip(_)
RStrip(s) ==
    IF s # <<>> /\ s[Len(s)] = " " THEN RStrip(SubSeq(s, 1, Len(s) - 1)) ELSE s

Strip(s) == RStrip(LStrip(s))

\* Python's `pat in s` on strings
Contains(s, pat) ==
    \E i \in 0..(Len(s) - Len(pat)) : SubSeq(s, i + 1, i + Len(pat)) = pat

\* round-half-even of n/d (d > 0): Python's round(x, 2) in fixed point
RoundDiv(n, d) ==
    LET q == n \div d
        r == n % d
    IN  IF 2 * r < d THEN q
        ELSE IF 2 * r > d THEN q + 1
        ELSE IF q % 2 = 0 THEN q ELSE q + 1

----------------------------------------------------------------------------
(* Labels used as inputs *)

sNairobi == <<"n","a","i","r","o","b","i">>

sNairobiCaps == <<" ","N","A","I","R","O","B","I"," ","W","e","s","t"," ">>

sMombasa == <<"M","o","m","b","a","s","a">>

sNA == <<"N","/","A">>

sUnknown == <<"U","n","k","n","o","w","n">>

----------------------------------------------------------------------------
(* Module-level constants and start-up state *)

\* l.11, in 1e-7 degree
BASE_LOCATION == [lat |-> -12637570, lon |-> 369116907]

\* l.18: the default shared secret
API_KEY == "b20f69591f2e4c906777e888437bb690"

\* l.35-42: the built-in defaults
DefaultConfig ==
    [rate_per_km_nairobi |-> 28, base_fee_nairobi |-> 50,
     flat_rate_others |-> 300, free_shipping_minimum |-> 3000,
     min_delivery_order |-> 500, zone_surcharge |-> 10]

\* l.31-33: a config.json; nothing orders its thresholds
FileConfig ==
    [rate_per_km_nairobi |-> 35, base_fee_nairobi |-> 60,
     flat_rate_others |-> 250, free_shipping_minimum |-> 400,
     min_delivery_order |-> 500, zone_surcharge |-> 0]

Configs == {DefaultConfig, FileConfig}

\* l.117/120 and l.153: the 1.8 km short-trip threshold, in metres
ShortTripMetres == 1800

\* l.155: the 5 km ETA band, in metres
MidTripMetres == 5000

----------------------------------------------------------------------------
(* External collaborators *)

\* geopy's geodesic(BASE_LOCATION, (lat, lon)).km for the sample points, in
\* metres (WGS-84 ellipsoid); a latitude outside [-90, 90] raises ValueError
GeodesicTable ==
    { <<0, 0, 4111026>>, <<0, BASE_LOCATION.lon, 139739>>,
      <<BASE_LOCATION.lat, 0, 4107962>>, <<BASE_LOCATION.lat, BASE_LOCATION.lon, 0>>,
      <<-12700000, 369200000, 1154>>, <<-12700000, BASE_LOCATION.lon, 690>>,
      <<-12921000, BASE_LOCATION.lon, 3134>>, <<-13500000, BASE_LOCATION.lon, 9536>>,
      <<-12921000, 368219000, 10473>> }

Geodesic(lat, lon) ==
    IF lat < -900000000 \/ lat > 900000000
    THEN [ok |-> FALSE, m |-> 0]
    ELSE [ok |-> TRUE,
          m |-> (CHOOSE t \in GeodesicTable : t[1] = lat /\ t[2] = lon)[3]]

\* what Nominatim's geocode(city + ", Kenya", timeout=10) can do: raise,
\* return None, or return a location
GeoOutcomes ==
    { [kind |-> "raise", lat |-> 0, lon |-> 0],
      [kind |-> "none", lat |-> 0, lon |-> 0],
      [kind |-> "location", lat |-> -12921000, lon |-> 368219000] }

\* what model.predict(X_pred)[0] can do: raise, or return a price (1/1000 KSh)
ModelOutcomes ==
    { [ok |-> FALSE, price |-> 0],
      [ok |-> TRUE, price |-> 0],
      [ok |-> TRUE, price |-> 215555] }

\* datetime.now() when the request carries no timestamp (minutes)
Now == 6000

\* pd.to_datetime(data.get(key, now)) with float()-like outcomes
ParseTime(f) ==
    IF f.k = "absent" THEN [ok |-> TRUE, v |-> Now]
    ELSE IF f.k = "num" THEN [ok |-> TRUE, v |-> f.v]
    ELSE [ok |-> FALSE, v |-> 0]

\* float(data.get(key, 0))
ParseFloatOr0(f) ==
    IF f.k = "absent" THEN [ok |-> TRUE, v |-> 0]
    ELSE IF f.k = "num" THEN [ok |-> TRUE, v |-> f.v]
    ELSE [ok |-> FALSE, v |-> 0]

\* data.get(key, "Unknown")
LabelOrUnknown(f) == IF f.k = "absent" THEN sUnknown ELSE f.s

----------------------------------------------------------------------------
(* The history file: pd.read_csv(DATA_FILE) and df.to_csv(DATA_FILE)       *)

\* field texts read_csv takes for a missing value (pandas' default na_values)
NAValues ==
    { <<>>, sNA, <<"N","A">>, <<"n","/","a">>, <<"n","a","n">>,
      <<"N","a","N">>, <<"n","u","l","l">>, <<"N","U","L","L">>,
      <<"N","o","n","e">>, <<"#","N","/","A">>, <<"<","N","A",">">> }

\* pd.read_csv: the file's rows as DataFrame rows.  The numeric columns and
\* the timestamp strings read back as written, an empty numeric field is NaN,
\* and a county text that is one of NAValues becomes NaN.
ReadCsv(file) ==
    [i \in 1..Len(file) |->
        [file[i] EXCEPT !.county =
            IF @ \in NAValues THEN NaNCell ELSE Label(@)]]

\* df.to_csv(index=False): NaN is written as the empty field (na_rep='')
ToCsv(d) ==
    [i \in 1..Len(d) |->
        [d[i] EXCEPT !.county = IF @.k = "nan" THEN <<>> ELSE @.s]]

\* pd.concat([df, pd.DataFrame([entry])], ignore_index=True)
Concat(d, entry) == Append(d, entry)

\* l.172-174 and l.199-209 run without interruption: the file they leave
AppendRow(file, entry) == ToCsv(Concat(ReadCsv(file), entry))

----------------------------------------------------------------------------
(* Requests, responses and the handler's internal record *)

Req(e, key, lat, lon, label, total, ts, delivered, price) ==
    [endpoint |-> e, key |-> key, latitude |-> lat, longitude |-> lon,
     label |-> label, order_total |-> total, timestamp |-> ts,
     delivered_timestamp |-> delivered, actual_price_ksh |-> price]

NoReq == Req("none", "", Absent, Absent, NoLabel, Absent, Absent, Absent, Absent)

\* a JSON response: its status, the keys of its body and their values
\* (values of keys that are not in `fields` are fillers)
Resp(status, fields, error, price, dist, mode, eta) ==
    [status |-> status, fields |-> fields, error |-> error,
     predicted_price_ksh |-> price, distance_km |-> dist, mode |-> mode,
     predicted_eta_hours |-> eta]

NoResp == Resp(0, {}, "", 0, 0, "", 0)

\* Flask's answer to an exception the handler does not catch
Exception500 == Resp(500, {}, "unhandled exception", 0, 0, "", 0)

\* what the handler did: whether the geocoder was called, the coordinates the
\* distance was computed from, the unrounded distance and price, the pricing
\* path taken ("none", "model" or "rule"), and how model.predict ended
\* ("none" when it was not called, "ok" or "raise")
Run(geocoded, lat, lon, dist, path, predict, price) ==
    [geocoder_called |-> geocoded, user_lat |-> lat, user_lon |-> lon,
     distance_m |-> dist, path |-> path, predict |-> predict,
     predicted_price |-> price]

NoRun == Run(FALSE, Absent, Absent, 0, "none", "none", 0)

Out(r, u) == [resp |-> r, run |-> u]

----------------------------------------------------------------------------
(* /predict-rate, l.57-135 *)

\* l.66-75: the coordinates read from the body; None is Absent
RateCoords(r) ==
    IF r.latitude.k # "absent" /\ r.longitude.k # "absent"
    THEN IF r.latitude.k # "num" THEN [lat |-> Absent, lon |-> Absent]
         ELSE IF r.longitude.k # "num" THEN [lat |-> r.latitude, lon |-> Absent]
         ELSE [lat |-> r.latitude, lon |-> r.longitude]
    ELSE [lat |-> Absent, lon |-> Absent]

\* Python's `not x` for x a float or None
Falsy(x) == x.k # "num" \/ x.v = 0

\* l.78: if not user_lat or not user_lon
NeedsGeocode(c) == Falsy(c.lat) \/ Falsy(c.lon)

\* variant of the gate that lets a free-shipping order through
BelowMinimumUnlessFree(order_total, cfg) ==
    /\ order_total < cfg.min_delivery_order
    /\ order_total < cfg.free_shipping_minimum

\* l.96: order_total < config["min_delivery_order"]
BelowMinimum(order_total, cfg) == order_total < cfg.min_delivery_order

\* variant of the rule price that matches the region label case-sensitively
RulePriceCaseSensitive(city, order_total, distance_m, cfg) ==
    IF Contains(city, sNairobi)
    THEN IF order_total >= cfg.free_shipping_minimum THEN 0
         ELSE IF distance_m <= ShortTripMetres THEN 1000 * cfg.base_fee_nairobi
         ELSE 1000 * cfg.base_fee_nairobi
              + cfg.rate_per_km_nairobi * (distance_m - ShortTripMetres)
    ELSE IF order_total >= cfg.free_shipping_minimum THEN 0
         ELSE 1000 * (cfg.flat_rate_others + cfg.zone_surcharge)

\* l.113-126: the rule-based price, in 1/1000 KSh
RulePrice(city, order_total, distance_m, cfg) ==
    IF Contains(Lower(city), sNairobi)
    THEN IF order_total >= cfg.free_shipping_minimum THEN 0
         ELSE IF distance_m <= ShortTripMetres THEN 1000 * cfg.base_fee_nairobi
         ELSE 1000 * cfg.base_fee_nairobi
              + cfg.rate_per_km_nairobi * (distance_m - ShortTripMetres)
    ELSE IF order_total >= cfg.free_shipping_minimum THEN 0
         ELSE 1000 * (cfg.flat_rate_others + cfg.zone_surcharge)

\* variant of l.110 that reports the rule path's label
ModelModeAsRule == "rule-based"

\* l.110: the mode reported for a price the model produced
ModelMode == "AI model"

\* l.128: the mode reported for a price the rules produced
RuleMode == "rule-based"

\* l.130-135: the priced response
PricedResp(distance_m, price, mode) ==
    Resp(200, {"distance_km", "predicted_price_ksh", "mode", "city"}, "",
         RoundDiv(price, 10), RoundDiv(distance_m, 10), mode, 0)

\* l.103-128: the outcomes of pricing one request
RatePricing(r, city, lat, lon, geocoded, total, dist) ==
    IF model
    THEN { IF m.ok
           THEN Out(PricedResp(dist, m.price, ModelMode),
                    Run(geocoded, Num(lat), Num(lon), dist, "model", "ok",
                        m.price))
           ELSE Out(Exception500,
                    Run(geocoded, Num(lat), Num(lon), dist, "model", "raise",
                        0))
           : m \in ModelOutcomes }
    ELSE LET price == RulePrice(city, total, dist, config)
         IN  { Out(PricedResp(dist, price, RuleMode),
                   Run(geocoded, Num(lat), Num(lon), dist, "rule", "none",
                       price)) }

\* l.90-135: the outcomes once the coordinates are resolved
RateResolved(r, city, lat, lon, geocoded) ==
    LET ts == ParseTime(r.timestamp)
        ot == ParseFloatOr0(r.order_total)
        d == Geodesic(lat, lon)
        u == Run(geocoded, Num(lat), Num(lon), 0, "none", "none", 0)
    IN  IF ~ts.ok \/ ~ot.ok \/ ~d.ok THEN { Out(Exception500, u) }
        ELSE IF BelowMinimum(ot.v, config)
        THEN { Out(Resp(400, {"error", "eligible"}, "minimum order",
                        0, 0, "", 0),
                   [u EXCEPT !.distance_m = d.m]) }
        ELSE RatePricing(r, city, lat, lon, geocoded, ot.v, d.m)

\* l.79-88: the outcomes of one geocoder answer
RateGeocoded(r, city, g) ==
    IF g.kind = "location"
    THEN RateResolved(r, city, g.lat, g.lon, TRUE)
    ELSE { Out(Resp(400, {"error"},
                    IF g.kind = "none" THEN "unable to locate"
                    ELSE "geocoding failed", 0, 0, "", 0),
               Run(TRUE, Absent, Absent, 0, "none", "none", 0)) }

\* l.59-135: every outcome predict_rate can have on request r
RateOutcomes(r) ==
    IF r.key # API_KEY
    THEN { Out(Resp(401, {"error"}, "Unauthorized", 0, 0, "", 0), NoRun) }
    ELSE LET city == Strip(LabelOrUnknown(r.label))
             c == RateCoords(r)
         IN  IF NeedsGeocode(c)
             THEN UNION { RateGeocoded(r, city, g) : g \in GeoOutcomes }
             ELSE RateResolved(r, city, c.lat.v, c.lon.v, FALSE)

----------------------------------------------------------------------------
(* /predict-eta, l.138-180 *)

\* l.141-147: the try block succeeds
EtaValid(r) ==
    /\ r.latitude.k = "num"
    /\ r.longitude.k = "num"
    /\ ParseTime(r.timestamp).ok

\* l.152-160: the ETA in 1/100 hour
EtaHours(county, distance_m) ==
    IF Contains(Lower(county), sNairobi)
    THEN IF distance_m <= ShortTripMetres THEN 50
         ELSE IF distance_m <= MidTripMetres THEN 100
         ELSE 150
    ELSE 600

\* l.163-171: the DataFrame row logged for the request
EtaEntry(r) ==
    LET county == Strip(LabelOrUnknown(r.label))
        d == Geodesic(r.latitude.v, r.longitude.v).m
    IN  [timestamp |-> ParseTime(r.timestamp).v,
         latitude |-> r.latitude.v, longitude |-> r.longitude.v,
         county |-> Label(county), distance_km |-> RoundDiv(d, 10),
         predicted_price_ksh |-> NaN,
         predicted_eta_hours |-> EtaHours(county, d)]

\* l.176-180
EtaResp(r) ==
    Resp(200, {"predicted_eta_hours", "eta_label", "mode"}, "", 0, 0,
         "rule-based", EtaEntry(r).predicted_eta_hours)

\* the handler's verdict on r: "invalid" (l.147), "raise" (l.149, geodesic
\* rejects the latitude), or "ok"
EtaVerdict(r) ==
    IF ~EtaValid(r) THEN "invalid"
    ELSE IF ~Geodesic(r.latitude.v, r.longitude.v).ok THEN "raise"
    ELSE "ok"

InvalidInput == Resp(400, {"error"}, "Invalid input", 0, 0, "", 0)

----------------------------------------------------------------------------
(* /log-delivery, l.183-211 *)

\* l.186-194: the try block succeeds
LogValid(r) ==
    /\ r.timestamp.k = "num"
    /\ r.delivered_timestamp.k = "num"
    /\ r.latitude.k = "num"
    /\ r.longitude.k = "num"
    /\ ParseFloatOr0(r.actual_price_ksh).ok

\* l.200-208: the DataFrame row logged for the reported delivery
LogEntry(r) ==
    LET d == Geodesic(r.latitude.v, r.longitude.v).m
    IN  [timestamp |-> r.timestamp.v,
         latitude |-> r.latitude.v, longitude |-> r.longitude.v,
         county |-> Label(LabelOrUnknown(r.label)),
         distance_km |-> RoundDiv(d, 10),
         predicted_price_ksh |-> Num(ParseFloatOr0(r.actual_price_ksh).v),
         predicted_eta_hours |->
            RoundDiv(100 * (r.delivered_timestamp.v - r.timestamp.v), 60)]

LogVerdict(r) ==
    IF ~LogValid(r) THEN "invalid"
    ELSE IF ~Geodesic(r.latitude.v, r.longitude.v).ok THEN "raise"
    ELSE "ok"

\* l.211
LogResp == Resp(201, {"status"}, "", 0, 0, "", 0)

----------------------------------------------------------------------------
(* Inputs *)

\* X-API-Key headers: the configured key, the same letters in upper case,
\* and no header at all
Keys == {API_KEY, "B20F69591F2E4C906777E888437BB690", "(no header)"}

\* latitude / longitude pairs sent to /predict-rate
RateCoordPairs ==
    { <<Absent, Absent>>,
      <<Text, Num(BASE_LOCATION.lon)>>,
      <<Num(-12700000), Text>>,
      <<Num(0), Num(BASE_LOCATION.lon)>>,
      <<Num(BASE_LOCATION.lat), Num(0)>>,
      <<Num(BASE_LOCATION.lat), Num(BASE_LOCATION.lon)>>,
      <<Num(-12700000), Num(369200000)>>,
      <<Num(-12921000), Num(BASE_LOCATION.lon)>>,
      <<Num(-13500000), Num(BASE_LOCATION.lon)>>,
      <<Num(910000000), Num(BASE_LOCATION.lon)>> }

RateLabels == {NoLabel, Label(sNairobi), Label(sNairobiCaps), Label(sMombasa)}

Totals == {Absent, Text, Num(200), Num(450), Num(500), Num(1000), Num(3000)}

Times == {Absent, Text, Num(600)}

RateRequests ==
    { Req("predict-rate", k, c[1], c[2], l, t, ts, Absent, Absent) :
        k \in Keys, c \in RateCoordPairs, l \in RateLabels, t \in Totals,
        ts \in Times }

\* the /predict-rate requests sent while the history file is being filled
LeanRateRequests ==
    { r \in RateRequests :
        /\ r.latitude = Num(-12921000)
        /\ r.label = Label(sNairobi)
        /\ r.order_total \in {Num(200), Num(1000)}
        /\ r.timestamp = Absent }

EtaRequests ==
    { Req("predict-eta", k, c[1], c[2], l, Absent, ts, Absent, Absent) :
        k \in {API_KEY, "(no header)"},
        c \in { <<Absent, Num(BASE_LOCATION.lon)>>,
                <<Num(0), Num(BASE_LOCATION.lon)>>,
                <<Num(-12921000), Num(BASE_LOCATION.lon)>>,
                <<Num(910000000), Num(BASE_LOCATION.lon)>> },
        l \in {Label(sNairobiCaps), Label(sNA)},
        ts \in {Num(600), Text} }

LogRequests ==
    { Req("log-delivery", k, c[1], c[2], l, Absent, ts, Num(690), p) :
        k \in {API_KEY, "(no header)"},
        c \in { <<Num(-12700000), Text>>,
                <<Num(-12700000), Num(BASE_LOCATION.lon)>>,
                <<Num(910000000), Num(BASE_LOCATION.lon)>> },
        l \in {NoLabel, Label(sMombasa)},
        ts \in {Absent, Num(600)},
        p \in {Absent, Num(120)} }

----------------------------------------------------------------------------
(* Start-up, l.20-49 *)

Workers == 1..NumWorkers

Init ==
    /\ model \in BOOLEAN
    /\ config \in Configs
    /\ store = <<>>
    /\ req = NoReq
    /\ resp = NoResp
    /\ run = NoRun
    /\ pc = [w \in Workers |-> "idle"]
    /\ df = [w \in Workers |-> <<>>]

----------------------------------------------------------------------------
(* Requests served one at a time *)

\* predict_rate on a request of Requests, l.57-135
PredictRateOn(Requests) ==
    /\ req.endpoint = "none"
    /\ \E r \in Requests :
         /\ req' = r
         /\ \E o \in RateOutcomes(r) : resp' = o.resp /\ run' = o.run
    /\ UNCHANGED <<model, config, store, pc, df>>

PredictRate == PredictRateOn(RateRequests)

PredictRateLean == PredictRateOn(LeanRateRequests)

\* predict_eta, l.138-180
PredictEta ==
    /\ req.endpoint = "none"
    /\ Len(store) < MaxRows
    /\ \E r \in EtaRequests :
         /\ req' = r
         /\ run' = NoRun
         /\ IF EtaVerdict(r) = "ok"
            THEN store' = AppendRow(store, EtaEntry(r)) /\ resp' = EtaResp(r)
            ELSE /\ store' = store
                 /\ resp' = IF EtaVerdict(r) = "invalid" THEN InvalidInput
                            ELSE Exception500
    /\ UNCHANGED <<model, config, pc, df>>

\* log_delivery, l.183-211
LogDelivery ==
    /\ req.endpoint = "none"
    /\ Len(store) < MaxRows
    /\ \E r \in LogRequests :
         /\ req' = r
         /\ run' = NoRun
         /\ IF LogVerdict(r) = "ok"
            THEN store' = AppendRow(store, LogEntry(r)) /\ resp' = LogResp
            ELSE /\ store' = store
                 /\ resp' = IF LogVerdict(r) = "invalid" THEN InvalidInput
                            ELSE Exception500
    /\ UNCHANGED <<model, config, pc, df>>

\* the response is sent; the server waits for the next request
Return ==
    /\ req.endpoint # "none"
    /\ req' = NoReq
    /\ resp' = NoResp
    /\ run' = NoRun
    /\ UNCHANGED <<model, config, store, pc, df>>

Next == PredictRateLean \/ PredictEta \/ LogDelivery \/ Return

Spec == Init /\ [][Next]_vars

\* /predict-rate alone, over its whole input set (it never touches the file)
RateNext == PredictRate \/ Return

RateSpec == Init /\ [][RateNext]_vars

----------------------------------------------------------------------------
(* Requests served by concurrent threads: each handler reads the file,     *)
(* appends in memory (l.172-173, l.199-208) and writes the file back       *)
(* (l.174, l.209) as separate steps.                                       *)

EtaRead(w) ==
    /\ pc[w] = "idle"
    /\ \E r \in EtaRequests :
         IF EtaVerdict(r) = "ok"
         THEN /\ df' = [df EXCEPT ![w] = Concat(ReadCsv(store), EtaEntry(r))]
              /\ pc' = [pc EXCEPT ![w] = "write"]
         ELSE /\ df' = df
              /\ pc' = [pc EXCEPT ![w] = "failed"]
    /\ UNCHANGED <<model, config, store, req, resp, run>>

LogRead(w) ==
    /\ pc[w] = "idle"
    /\ \E r \in LogRequests :
         IF LogVerdict(r) = "ok"
         THEN /\ df' = [df EXCEPT ![w] = Concat(ReadCsv(store), LogEntry(r))]
              /\ pc' = [pc EXCEPT ![w] = "write"]
         ELSE /\ df' = df
              /\ pc' = [pc EXCEPT ![w] = "failed"]
    /\ UNCHANGED <<model, config, store, req, resp, run>>

\* l.174 / l.209: df.to_csv(DATA_FILE, index=False), then the response
WriteBack(w) ==
    /\ pc[w] = "write"
    /\ store' = ToCsv(df[w])
    /\ pc' = [pc EXCEPT ![w] = "done"]
    /\ UNCHANGED <<model, config, req, resp, run, df>>

ConcNext == \E w \in Workers : EtaRead(w) \/ LogRead(w) \/ WriteBack(w)

ConcSpec == Init /\ [][ConcNext]_vars

----------------------------------------------------------------------------
(* Properties *)

\* the request in hand is a /predict-rate request that passed the key check
RateAuthorized == req.endpoint = "predict-rate" /\ req.key = API_KEY

\* ... and whose coordinates were resolved (from the body or by geocoding)
RateCoordsResolved ==
    RateAuthorized /\ run.user_lat.k = "num" /\ run.user_lon.k = "num"

\* order_total (0 when absent) is a number below min_delivery_order
TotalBelowMinimum ==
    /\ ParseFloatOr0(req.order_total).ok
    /\ ParseFloatOr0(req.order_total).v < config.min_delivery_order

\* the response is the minimum-order rejection: eligible=false, no price
IsRejection ==
    /\ resp.status = 400
    /\ "eligible" \in resp.fields
    /\ "predicted_price_ksh" \notin resp.fields
    /\ run.path = "none"

\* the response is a priced /predict-rate result
IsPriced ==
    /\ req.endpoint = "predict-rate"
    /\ resp.status = 200
    /\ "predicted_price_ksh" \in resp.fields

C2_FallbackOnPredictFailure ==
    (req.endpoint = "predict-rate" /\ run.predict = "raise")
    => (IsPriced /\ resp.mode = "rule-based")

\* C3: once every concurrent /predict-eta and /log-delivery request has
\* finished, the file holds one row for each request that succeeded.
C3_NoLostRecord ==
    (\A w \in Workers : pc[w] \in {"done", "failed"})
    => Len(store) = Cardinality({w \in Workers : pc[w] = "done"})

\* C4: a request to /predict-rate, /predict-eta or /log-delivery whose
\* X-API-Key is not the configured key is answered Unauthorized and leaves
\* the history file unchanged.
C4_UnauthorizedRejected ==
    [][ (req.endpoint = "none" /\ req'.endpoint # "none" /\ req'.key # API_KEY)
        => (resp'.status = 401 /\ store' = store) ]_vars

\* C5: a request answered with a price (/predict-rate) or an ETA
\* (/predict-eta) has appended one history row before the response.
C5_PredictionLogged ==
    [][ ( /\ req.endpoint = "none"
          /\ req'.endpoint \in {"predict-rate", "predict-eta"}
          /\ resp'.status = 200 )
        => Len(store') = Len(store) + 1 ]_vars

\* C6: a priced /predict-rate response whose order_total is at or above
\* free_shipping_minimum carries the price 0, model loaded or not.
C6_FreeShipping ==
    ( /\ IsPriced
      /\ ParseFloatOr0(req.order_total).v >= config.free_shipping_minimum )
    => resp.predicted_price_ksh = 0

HomeLabel == Contains(Lower(LabelOrUnknown(req.label)), sNairobi)

\* distances (metres) beyond the short-trip threshold, for the slope
SlopeDistances == {1801, 2000, 3134, 9536, 10473, 139739}

\* C8: on the rule-based path, for a home-region label in any letter case and
\* min_delivery_order <= order_total < free_shipping_minimum, the price is
\* base_fee_nairobi up to 1.8 km and base_fee_nairobi + rate_per_km_nairobi *
\* (distance - 1.8) beyond it, so beyond 1.8 km it grows with slope
\* rate_per_km_nairobi.
C8_HomeRulePrice ==
    ( /\ IsPriced
      /\ run.path = "rule"
      /\ HomeLabel
      /\ ParseFloatOr0(req.order_total).v < config.free_shipping_minimum )
    => /\ run.distance_m <= ShortTripMetres
            => run.predicted_price = 1000 * config.base_fee_nairobi
       /\ run.distance_m > ShortTripMetres
            => /\ run.predicted_price =
                    1000 * config.base_fee_nairobi
                    + config.rate_per_km_nairobi
                      * (run.distance_m - ShortTripMetres)
               /\ \A d \in SlopeDistances :
                    RulePrice(Strip(LabelOrUnknown(req.label)),
                              ParseFloatOr0(req.order_total).v, d, config)
                    - run.predicted_price
                    = config.rate_per_km_nairobi * (d - run.distance_m)

\* C8's case: an upper-case home label priced by the rules beyond 1.8 km
C8_Witness ==
    /\ IsPriced
    /\ run.path = "rule"
    /\ req.label = Label(sNairobiCaps)
    /\ run.distance_m > ShortTripMetres
    /\ ParseFloatOr0(req.order_total).v < config.free_shipping_minimum
    /\ run.predicted_price > 1000 * config.base_fee_nairobi

\* the response reports an error
IsError == resp.status >= 400

\* C9: with requests served one at a time, the rows present before a request
\* are an unchanged prefix of the rows present after it, and a request that
\* ends in an error adds no row.
C9_AppendOnly ==
    [][ /\ Len(store) <= Len(store')
        /\ SubSeq(store', 1, Len(store)) = store
        /\ (IsError' => store' = store) ]_vars

\* C10: when the body carries a numeric latitude and a numeric longitude
\* (0 included), /predict-rate does not call the geocoder and computes the
\* distance from exactly those coordinates.
C10_ExplicitCoordsUsed ==
    (RateAuthorized /\ req.latitude.k = "num" /\ req.longitude.k = "num")
    => /\ ~run.geocoder_called
       /\ run.user_lat = req.latitude
       /\ run.user_lon = req.longitude

====
